---- MODULE Spec2Model ----
(***************************************************************************)
(* The My Content recommender: the in-memory stores built at load time     *)
(* (embeddings, article ids, catalog metadata, click log), the cosine      *)
(* similarity search and the recommend operation, as implemented twice:    *)
(*   - my_content/recommendation_engine.py  (class ContentRecommender)     *)
(*   - azure_function/function_app.py       (module-level globals)         *)
(* One behaviour of the model is one process running one of the two        *)
(* programs over a fixed set of input artifacts. A ContentRecommender is   *)
(* called from one thread; the requests to function_app run on the threads *)
(* of the host, each at its own position in recommend(), and they share    *)
(* the module's globals.                                                   *)
(*                                                                         *)
(* Numbers: every float of the program (a cosine similarity, a             *)
(* recommendation_score) is an IEEE 754 double, held exactly as the record *)
(* [neg, man, exp] of the value (-1)^neg * man * 2^exp, where man is an    *)
(* odd natural number written in base 2^15, least significant digit first  *)
(* (0.0 is [neg |-> FALSE, man |-> <<>>, exp |-> 0]; a zero has no sign).  *)
(* Every operation on floats rounds its exact result to 53 significant     *)
(* bits, ties to even; the numbers of the model are far from overflow and  *)
(* underflow.                                                              *)
(***************************************************************************)
EXTENDS Integers, Sequences, FiniteSets, Bags, TLC

\* ------------------------------------------------------------------ bounds
MaxRows == 3        \* rows of the embeddings matrix
MaxClicks == 2      \* click rows of the first user's log file
MaxTopN == 3        \* largest top_n / top_k a request asks for
MaxRequests == 2    \* requests to /api/recommend in flight at once

\* ------------------------------------------------------- program constants
SeedCap == 5            \* user_history[:5]
CandidateBreadth == 20  \* get_similar_articles(article_id, top_k=20)
ClickFilesCap == 10     \* [:10] click files read at load
SyntheticStop == 101    \* range(1, min(limit + 1, 101)) in get_available_users
DefaultTopN == 5        \* top_n default of recommend

\* ----------------------------------------------------------------- values
\* Optional values: None is the empty tuple, Some(v) the one-element tuple.
None == <<>>
Some(v) == <<v>>
IsNone(x) == x = <<>>
Val(x) == x[1]

Range(s) == {s[i] : i \in 1..Len(s)}

RECURSIVE Reverse(_)
Reverse(s) == IF s = <<>> THEN <<>> ELSE Append(Reverse(Tail(s)), Head(s))

\* Python's clamping of one slice bound against a length n.
PyIndex(i, n) ==
    IF i < 0 THEN (IF i + n < 0 THEN 0 ELSE i + n)
    ELSE (IF i > n THEN n ELSE i)

\* Python's s[lo:hi] (also pandas' head(n) = iloc[:n]), 0-based bounds.
PySlice(s, lo, hi) ==
    LET a == PyIndex(lo, Len(s))
        b == PyIndex(hi, Len(s))
    IN IF a >= b THEN <<>> ELSE SubSeq(s, a + 1, b)

\* list.index(x): the first position of x (1-based), 0 where Python raises
\* ValueError.
IndexOf(s, x) ==
    IF x \in Range(s) THEN CHOOSE i \in 1..Len(s) : s[i] = x /\ \A j \in 1..(i - 1) : s[j] # x
    ELSE 0

\* Series.unique(): the values in order of first appearance.
RECURSIVE Unique(_)
Unique(s) ==
    IF s = <<>> THEN <<>>
    ELSE LET init == Unique(SubSeq(s, 1, Len(s) - 1))
             x == s[Len(s)]
         IN IF x \in Range(init) THEN init ELSE Append(init, x)

\* ------------------------------------------------------- natural numbers
\* A natural number of any size: the sequence of its digits in base 2^15,
\* least significant first, without leading zeros (0 is <<>>).
LimbBits == 15
Base == 2 ^ LimbBits

RECURSIVE Trim(_)
Trim(a) == IF a # <<>> /\ a[Len(a)] = 0 THEN Trim(SubSeq(a, 1, Len(a) - 1)) ELSE a

RECURSIVE NatOf(_)
NatOf(n) == IF n = 0 THEN <<>> ELSE <<n % Base>> \o NatOf(n \div Base)

RECURSIVE AddCarry(_, _, _)
AddCarry(a, b, c) ==
    IF a = <<>> /\ b = <<>> THEN (IF c = 0 THEN <<>> ELSE <<c>>)
    ELSE LET x == (IF a = <<>> THEN 0 ELSE a[1]) + (IF b = <<>> THEN 0 ELSE b[1]) + c
         IN <<x % Base>> \o AddCarry(IF a = <<>> THEN <<>> ELSE Tail(a),
                                     IF b = <<>> THEN <<>> ELSE Tail(b), x \div Base)

NatAdd(a, b) == AddCarry(a, b, 0)

RECURSIVE SubBorrow(_, _, _)
SubBorrow(a, b, c) ==
    IF a = <<>> THEN <<>>
    ELSE LET x == a[1] - (IF b = <<>> THEN 0 ELSE b[1]) - c
         IN <<x % Base>> \o SubBorrow(Tail(a), IF b = <<>> THEN <<>> ELSE Tail(b),
                                      IF x < 0 THEN 1 ELSE 0)

\* a - b, for a >= b
NatSub(a, b) == Trim(SubBorrow(a, b, 0))

RECURSIVE CmpFrom(_, _, _)
CmpFrom(a, b, i) ==
    IF i = 0 THEN 0
    ELSE IF a[i] < b[i] THEN -1
    ELSE IF a[i] > b[i] THEN 1
    ELSE CmpFrom(a, b, i - 1)

\* -1, 0 or 1 as a < b, a = b or a > b
NatCmp(a, b) ==
    IF Len(a) # Len(b) THEN (IF Len(a) < Len(b) THEN -1 ELSE 1)
    ELSE CmpFrom(a, b, Len(a))

RECURSIVE MulDigit(_, _, _)
MulDigit(a, m, c) ==
    IF a = <<>> THEN (IF c = 0 THEN <<>> ELSE <<c>>)
    ELSE LET x == a[1] * m + c
         IN <<x % Base>> \o MulDigit(Tail(a), m, x \div Base)

RECURSIVE NatMul(_, _)
NatMul(a, b) ==
    IF a = <<>> \/ b = <<>> THEN <<>>
    ELSE LET rest == NatMul(a, Tail(b))
         IN NatAdd(Trim(MulDigit(a, b[1], 0)), IF rest = <<>> THEN <<>> ELSE <<0>> \o rest)

\* a * 2^n
NatShl(a, n) ==
    IF a = <<>> THEN <<>>
    ELSE [i \in 1..(n \div LimbBits) |-> 0] \o MulDigit(a, 2 ^ (n % LimbBits), 0)

\* Quotient and remainder of a by a divisor of one digit.
RECURSIVE DivDigit(_, _)
DivDigit(a, d) ==
    IF a = <<>> THEN [quot |-> <<>>, rem |-> 0]
    ELSE LET hi == DivDigit(Tail(a), d)
             x == hi.rem * Base + a[1]
         IN [quot |-> <<x \div d>> \o hi.quot, rem |-> x % d]

\* a \div 2^n
NatShr(a, n) ==
    IF n \div LimbBits >= Len(a) THEN <<>>
    ELSE Trim(DivDigit(SubSeq(a, n \div LimbBits + 1, Len(a)), 2 ^ (n % LimbBits)).quot)

\* The number of binary digits of a.
BitLen(a) ==
    IF a = <<>> THEN 0
    ELSE (Len(a) - 1) * LimbBits
         + (CHOOSE k \in 1..LimbBits : 2 ^ (k - 1) <= a[Len(a)] /\ a[Len(a)] < 2 ^ k)

\* The number of zero binary digits at the low end of a, for a > 0.
RECURSIVE TrailingZeros(_)
TrailingZeros(a) ==
    IF a[1] = 0 THEN LimbBits + TrailingZeros(Tail(a))
    ELSE CHOOSE k \in 0..(LimbBits - 1) : a[1] % (2 ^ k) = 0 /\ (a[1] \div (2 ^ k)) % 2 = 1

\* ------------------------------------------------------------------ floats
\* The significant bits of a Python float (an IEEE 754 double).
MantissaBits == 53

Zero == [neg |-> FALSE, man |-> <<>>, exp |-> 0]

\* The number (-1)^neg * man * 2^exp, with man made odd.
Number(neg, man, exp) ==
    IF man = <<>> THEN Zero
    ELSE LET z == TrailingZeros(man)
         IN [neg |-> neg, man |-> NatShr(man, z), exp |-> exp + z]

\* The double nearest to the number x: x cut to MantissaBits significant
\* bits, rounded to nearest, a tie to the even mantissa.
Rounded(x) ==
    LET d == BitLen(x.man) - MantissaBits
    IN IF d <= 0 THEN x
       ELSE LET q == NatShr(x.man, d)
                c == NatCmp(NatSub(x.man, NatShl(q, d)), NatShl(<<1>>, d - 1))
                up == c > 0 \/ (c = 0 /\ q[1] % 2 = 1)
            IN Number(x.neg, IF up THEN NatAdd(q, <<1>>) ELSE q, x.exp + d)

\* x + y and x * y as numbers, before any rounding.
ExactSum(x, y) ==
    LET e == IF x.exp < y.exp THEN x.exp ELSE y.exp
        a == NatShl(x.man, x.exp - e)
        b == NatShl(y.man, y.exp - e)
    IN IF x.neg = y.neg THEN Number(x.neg, NatAdd(a, b), e)
       ELSE IF NatCmp(a, b) >= 0 THEN Number(x.neg, NatSub(a, b), e)
       ELSE Number(y.neg, NatSub(b, a), e)

ExactProduct(x, y) == Number(x.neg # y.neg, NatMul(x.man, y.man), x.exp + y.exp)

\* x + y of two floats
FloatAdd(x, y) == Rounded(ExactSum(x, y))

\* float(n) of an integer n
ToFloat(n) == Number(n < 0, NatOf(IF n < 0 THEN -n ELSE n), 0)

\* float(a) / float(n) of integers a and n, 0 < n < 2^15: the quotient is
\* taken to QuotientBits binary places and a remainder is kept as one more
\* digit, which is below the rounding position.
QuotientBits == 70
IntDiv(a, n) ==
    LET d == DivDigit(NatShl(NatOf(IF a < 0 THEN -a ELSE a), QuotientBits), n)
        q == Trim(d.quot)
    IN Rounded(Number(a < 0, NatAdd(NatShl(q, 1), IF d.rem = 0 THEN <<>> ELSE <<1>>),
                      -(QuotientBits + 1)))

Sign(x) == IF x.man = <<>> THEN 0 ELSE IF x.neg THEN -1 ELSE 1

\* -1, 0 or 1 as x < y, x = y or x > y
FloatCmp(x, y) ==
    IF x = y THEN 0
    ELSE IF Sign(x) # Sign(y) THEN (IF Sign(x) < Sign(y) THEN -1 ELSE 1)
    ELSE LET tx == x.exp + BitLen(x.man)
             ty == y.exp + BitLen(y.man)
             e == IF x.exp < y.exp THEN x.exp ELSE y.exp
             m == IF tx # ty THEN (IF tx < ty THEN -1 ELSE 1)
                  ELSE NatCmp(NatShl(x.man, x.exp - e), NatShl(y.man, y.exp - e))
         IN Sign(x) * m

\* --------------------------------------------------------- cosine similarity
\* The rows of the model hold integers: a . b, exactly.
Dot(a, b) == a[1] * b[1] + a[2] * b[2]

Abs(x) == IF x < 0 THEN -x ELSE x

\* Euclidean norm; the vectors of the model have integer norms.
Norm(a) == CHOOSE n \in 0..(Abs(a[1]) + Abs(a[2])) : n * n = Dot(a, a)

\* sklearn's normalize: each value of the row divided by the norm of the row
\* (a zero row is divided by 1).
UnitRow(a) ==
    LET n == IF Norm(a) = 0 THEN 1 ELSE Norm(a)
    IN <<IntDiv(a[1], n), IntDiv(a[2], n)>>

\* How the numeric library of the process computes x1*y1 + x2*y2: it rounds
\* both products and adds them, or it fuses one product into the addition
\* (one rounding for a*b + c), the first or the second one. Which, depends on
\* the BLAS build and the processor.
Builds == {"separate", "fused_first", "fused_second"}

DotProduct(blas, x, y) ==
    LET p == ExactProduct(x[1], y[1])
        q == ExactProduct(x[2], y[2])
    IN CASE blas = "separate" -> FloatAdd(Rounded(p), Rounded(q))
         [] blas = "fused_first" -> Rounded(ExactSum(p, Rounded(q)))
         [] blas = "fused_second" -> Rounded(ExactSum(Rounded(p), q))

\* sklearn's cosine_similarity of two rows: both rows are normalised and
\* multiplied.
Cosine(blas, a, b) == DotProduct(blas, UnitRow(a), UnitRow(b))

\* Embedding vectors: three directions with cosines 0, 0.6 and 0.8.
Vecs == {<<5, 0>>, <<0, 5>>, <<3, 4>>}

\* Seven directions of norm 5, no two alike.
LongMatrix ==
    <<<<5, 0>>, <<4, 3>>, <<3, 4>>, <<0, 5>>, <<-3, 4>>, <<-4, 3>>, <<-5, 0>>>>

\* Five directions: three along the axes and two that are not.
RoundingMatrix == <<<<5, 0>>, <<0, 5>>, <<-5, 0>>, <<3, 4>>, <<-3, 4>>>>

\* The rows of the matrices of the model's inputs, and their cosines, worked
\* out once.
InputRows == Vecs \cup Range(LongMatrix) \cup Range(RoundingMatrix)

CosineTable ==
    [blas \in Builds |-> [a \in InputRows |-> [b \in InputRows |-> Cosine(blas, a, b)]]]

\* cosine_similarity of two rows, from the table when it holds them.
CosineSimilarity(blas, a, b) ==
    IF a \in InputRows /\ b \in InputRows THEN CosineTable[blas][a][b]
    ELSE Cosine(blas, a, b)

\* similarities = cosine_similarity(article_embedding, embeddings)[0]
Similarities(blas, embeddings, idx) ==
    [j \in 1..Len(embeddings) |-> CosineSimilarity(blas, embeddings[idx], embeddings[j])]

\* The orders of the indices in S that put sims in ascending order.
RECURSIVE AscendingOrders(_, _)
AscendingOrders(sims, S) ==
    IF S = {} THEN {<<>>}
    ELSE LET least == {i \in S : \A j \in S : FloatCmp(sims[i], sims[j]) <= 0}
         IN UNION {{<<i>> \o t : t \in AscendingOrders(sims, S \ {i})} : i \in least}

\* np.argsort(similarities): a permutation of the row indices that puts the
\* similarities in ascending order. The default kind ("quicksort") is not
\* stable: the order among equal similarities depends on the numpy build, so
\* every ascending permutation is an outcome.
ArgsortOutcomes(sims) == AscendingOrders(sims, 1..Len(sims))

\* [(article_ids[idx], similarities[idx]) for idx in similar_indices]
Neighbours(article_ids, sims, similar_indices) ==
    [i \in 1..Len(similar_indices) |->
        [id |-> article_ids[similar_indices[i]], score |-> sims[similar_indices[i]]]]

\* A plausible slip: an unknown article falls through to row -1 (the last
\* row), as str.find would give, instead of raising ValueError.
SimilarArticlesUnknownAsLast(blas, article_ids, embeddings, article_id, top_k) ==
    LET idx == IF article_id \in Range(article_ids)
               THEN IndexOf(article_ids, article_id) ELSE Len(article_ids)
        sims == Similarities(blas, embeddings, idx)
    IN {Neighbours(article_ids, sims, PySlice(Reverse(p), 1, top_k + 1)) :
          p \in ArgsortOutcomes(sims)}

\* get_similar_articles(article_id, top_k): the set of lists the call can
\* return. An article that is not in article_ids gives [] (the ValueError of
\* list.index is caught).
SimilarArticles(blas, article_ids, embeddings, article_id, top_k) ==
    IF article_id \notin Range(article_ids) THEN {<<>>}
    ELSE LET idx == IndexOf(article_ids, article_id)
             sims == Similarities(blas, embeddings, idx)
         IN {Neighbours(article_ids, sims, PySlice(Reverse(p), 1, top_k + 1)) :
               p \in ArgsortOutcomes(sims)}

\* ------------------------------------------------------------ catalog cells
\* A cell of the metadata table: a value, or NaN where the CSV cell is empty.
NaN == [kind |-> "nan", val |-> 0]
IntCell(n) == [kind |-> "int", val |-> n]
TextCell(n) == [kind |-> "text", val |-> n]     \* a non-empty title
EmptyText == [kind |-> "empty", val |-> 0]      \* the title ''
ArticleTitle(id) == [kind |-> "article", val |-> id]    \* f'Article {id}'
NotAvailable == [kind |-> "N/A", val |-> 0]     \* the literal 'N/A'

Ok(v) == [status |-> "ok", value |-> v]
Raised == [status |-> "raised", value |-> <<>>]

\* The rows of the table whose article_id is the given one.
MatchingRows(table, article_id) ==
    SelectSeq(table.rows, LAMBDA r : r.article_id = article_id)

\* Series.get(column, default): the default only when the column is absent.
Get(table, row, column, default) ==
    IF column \in table.columns THEN row[column] ELSE default

\* int(x) raises ValueError on NaN.
IntRaises(cell) == cell.kind = "nan"

\* pd.isna(title) or title == ''
TitleMissing(cell) == cell.kind = "nan" \/ cell.kind = "empty"

\* ContentRecommender._get_article_info
EngineArticleInfo(table, article_id) ==
    LET found == MatchingRows(table, article_id)
    IN IF found = <<>>
       THEN Ok([article_id |-> article_id, title |-> ArticleTitle(article_id),
                category |-> NotAvailable, words_count |-> 0])
       ELSE LET article == found[1]
                got == Get(table, article, "title", ArticleTitle(article_id))
                title == IF TitleMissing(got) THEN ArticleTitle(article_id) ELSE got
                words == Get(table, article, "words_count", IntCell(0))
            IN IF IntRaises(words) THEN Raised
               ELSE Ok([article_id |-> article_id, title |-> title,
                        category |-> Get(table, article, "category_id", NotAvailable),
                        words_count |-> words.val])

\* function_app.get_article_info
FaArticleInfo(table, article_id) ==
    LET found == MatchingRows(table, article_id)
    IN IF found = <<>>
       THEN Ok([article_id |-> article_id, title |-> ArticleTitle(article_id),
                category |-> NotAvailable, words_count |-> 0])
       ELSE LET article == found[1]
                category == Get(table, article, "category_id", IntCell(0))
                words == Get(table, article, "words_count", IntCell(0))
            IN IF IntRaises(category) \/ IntRaises(words) THEN Raised
               ELSE Ok([article_id |-> article_id, title |-> ArticleTitle(article_id),
                        category |-> IntCell(category.val),
                        words_count |-> words.val])

\* article_info['recommendation_score'] = float(score)
WithScore(info, score) ==
    [article_id |-> info.article_id, title |-> info.title, category |-> info.category,
     words_count |-> info.words_count, recommendation_score |-> score]

\* ---------------------------------------------------------------- click log
\* get_user_history: [] for an unset or empty log or an unknown user, else the
\* user's distinct click_article_id values in order of first appearance.
UserHistory(user_clicks, user_id) ==
    IF IsNone(user_clicks) \/ Len(Val(user_clicks)) = 0 THEN <<>>
    ELSE LET user_data == SelectSeq(Val(user_clicks), LAMBDA c : c.user_id = user_id)
         IN Unique([i \in 1..Len(user_data) |-> user_data[i].click_article_id])

ClickCount(clicks, article_id) ==
    Cardinality({i \in 1..Len(clicks) : clicks[i].click_article_id = article_id})

\* user_clicks['click_article_id'].value_counts(): the distinct articles with
\* their counts, descending by count. The order among equal counts is not
\* documented by pandas: every descending order is an outcome.
ValueCountsOutcomes(clicks) ==
    LET articles == {clicks[i].click_article_id : i \in 1..Len(clicks)}
        n == Cardinality(articles)
    IN {[i \in 1..n |-> [id |-> p[i], score |-> ClickCount(clicks, p[i])]] :
          p \in {q \in [1..n -> articles] :
                   /\ \A i, j \in 1..n : i # j => q[i] # q[j]
                   /\ \A i \in 1..(n - 1) :
                        ClickCount(clicks, q[i]) >= ClickCount(clicks, q[i + 1])}}

\* ------------------------------------------------------- score aggregation
\* recommendations_scores is a dict: here the sequence of its (id, score)
\* items in insertion order, which is the order dict.items() enumerates.
\* recommendations_scores[recommended_id] += score adds two floats (the first
\* time, the integer 0 and a float), so the sum an article ends with depends
\* on the order in which its scores were added.
AddScore(scores, recommended_id, score) ==
    IF \E i \in 1..Len(scores) : scores[i].id = recommended_id
    THEN [i \in 1..Len(scores) |->
            IF scores[i].id = recommended_id
            THEN [id |-> recommended_id, score |-> FloatAdd(scores[i].score, score)]
            ELSE scores[i]]
    ELSE Append(scores, [id |-> recommended_id, score |-> FloatAdd(ToFloat(0), score)])

\* not (recommended_id not in user_history)
AlreadyRead(recommended_id, user_history) == recommended_id \in Range(user_history)

\* for recommended_id, score in similar_articles: ...
RECURSIVE AccumulateSimilar(_, _, _)
AccumulateSimilar(scores, similar, user_history) ==
    IF similar = <<>> THEN scores
    ELSE LET c == Head(similar)
         IN AccumulateSimilar(
                IF AlreadyRead(c.id, user_history) THEN scores
                ELSE AddScore(scores, c.id, c.score),
                Tail(similar), user_history)

\* for article_id in user_history[:5]: ... over the lists get_similar_articles
\* returned, one per seed.
RECURSIVE AccumulateSeeds(_, _, _)
AccumulateSeeds(scores, trace, user_history) ==
    IF trace = <<>> THEN scores
    ELSE AccumulateSeeds(AccumulateSimilar(scores, Head(trace).similar, user_history),
                         Tail(trace), user_history)

\* One step of a stable descending sort: e goes after every item whose score
\* is at least its own.
InsertDescending(sorted, e) ==
    LET k == Cardinality({i \in 1..Len(sorted) : FloatCmp(sorted[i].score, e.score) >= 0})
    IN SubSeq(sorted, 1, k) \o <<e>> \o SubSeq(sorted, k + 1, Len(sorted))

\* A plausible slip: reverse=True is left out, the sort is ascending.
RECURSIVE SortedAscending(_)
SortedAscending(items) ==
    IF items = <<>> THEN <<>>
    ELSE LET rest == SortedAscending(SubSeq(items, 1, Len(items) - 1))
             e == items[Len(items)]
             k == Cardinality({i \in 1..Len(rest) : FloatCmp(rest[i].score, e.score) <= 0})
         IN SubSeq(rest, 1, k) \o <<e>> \o SubSeq(rest, k + 1, Len(rest))

\* sorted(recommendations_scores.items(), key=lambda x: x[1], reverse=True):
\* Python's sort is stable, also with reverse=True.
RECURSIVE SortedDescending(_)
SortedDescending(items) ==
    IF items = <<>> THEN <<>>
    ELSE InsertDescending(SortedDescending(SubSeq(items, 1, Len(items) - 1)),
                          items[Len(items)])

\* sorted(...)[:top_n]
RankedRecommendations(trace, user_history, top_n) ==
    PySlice(SortedDescending(AccumulateSeeds(<<>>, trace, user_history)), 0, top_n)

\* The lists get_similar_articles(seed, top_k=20) can return, one per seed.
RECURSIVE SeedTraces(_, _, _, _)
SeedTraces(blas, article_ids, embeddings, seeds) ==
    IF seeds = <<>> THEN {<<>>}
    ELSE {<<[seed |-> Head(seeds), similar |-> s]>> \o t :
            s \in SimilarArticles(blas, article_ids, embeddings, Head(seeds), CandidateBreadth),
            t \in SeedTraces(blas, article_ids, embeddings, Tail(seeds))}

\* What one call of recommend_for_user did: the list it returned (or that it
\* raised), the path it took, the history it read and the neighbour lists it
\* got for its seeds.
Outcome(result, path, user_history, trace) ==
    [status |-> result.status, value |-> result.value, path |-> path,
     history |-> user_history, trace |-> trace]

\* ------------------------------------------------- ContentRecommender (engine)
\* for article_id, score in sorted_recommendations: _get_article_info ...
EngineEnrich(table, ranked) ==
    IF \E i \in 1..Len(ranked) : EngineArticleInfo(table, ranked[i].id).status = "raised"
    THEN Raised
    ELSE Ok([i \in 1..Len(ranked) |->
               WithScore(EngineArticleInfo(table, ranked[i].id).value, ranked[i].score)])

\* The dtype pandas gives a column: object when it holds text, float64 when
\* it holds an empty cell and no text, int64 otherwise.
ObjectColumn(table, column) ==
    /\ column \in table.columns
    /\ \E i \in 1..Len(table.rows) : table.rows[i][column].kind \in {"text", "empty"}

FloatColumn(table, column) ==
    /\ column \in table.columns
    /\ ~ObjectColumn(table, column)
    /\ \E i \in 1..Len(table.rows) : table.rows[i][column].kind = "nan"

\* iterrows() gives each row as one Series of a single dtype: with no object
\* column and some float64 column every value of the row, article_id
\* included, is a float.
RowsAreFloat(table) ==
    /\ \A column \in table.columns : ~ObjectColumn(table, column)
    /\ \E column \in table.columns : FloatColumn(table, column)

\* f"Article {row['article_id']}" on a row of iterrows(): 'Article 10', or
\* 'Article 10.0' when the row is a row of floats.
RowArticleTitle(table, id) ==
    IF RowsAreFloat(table) THEN [kind |-> "article_float", val |-> id]
    ELSE ArticleTitle(id)

\* _get_popular_articles, no click data: the first top_n rows of the metadata,
\* row j (0-based) scored float(top_n - j). The title is taken as it is.
EngineFirstArticles(table, top_n) ==
    LET rows == PySlice(table.rows, 0, top_n)
    IN IF \E i \in 1..Len(rows) :
            IntRaises(Get(table, rows[i], "words_count", IntCell(0)))
       THEN Raised
       ELSE Ok([i \in 1..Len(rows) |->
                  [article_id |-> rows[i].article_id,
                   title |-> Get(table, rows[i], "title",
                                 RowArticleTitle(table, rows[i].article_id)),
                   category |-> Get(table, rows[i], "category_id", NotAvailable),
                   words_count |-> Get(table, rows[i], "words_count", IntCell(0)).val,
                   recommendation_score |-> ToFloat(top_n - (i - 1))]])

\* value_counts().head(top_n), scores float(count)
PopularRanked(ranking, top_n) ==
    LET top == PySlice(ranking, 0, top_n)
    IN [i \in 1..Len(top) |-> [id |-> top[i].id, score |-> ToFloat(top[i].score)]]

\* ContentRecommender._get_popular_articles
EnginePopularArticles(self, top_n) ==
    IF IsNone(self.user_clicks) \/ Len(Val(self.user_clicks)) = 0
    THEN {Outcome(EngineFirstArticles(Val(self.articles_metadata), top_n),
                  "catalog", <<>>, <<>>)}
    ELSE {Outcome(EngineEnrich(Val(self.articles_metadata), PopularRanked(ranking, top_n)),
                  "popularity", <<>>, <<>>) :
            ranking \in ValueCountsOutcomes(Val(self.user_clicks))}

\* ContentRecommender.recommend_for_user: the outcomes of one call.
EngineRecommendForUser(blas, self, user_id, top_n) ==
    LET user_history == UserHistory(self.user_clicks, user_id)
    IN IF user_history = <<>> THEN EnginePopularArticles(self, top_n)
       ELSE {Outcome(EngineEnrich(Val(self.articles_metadata),
                                  RankedRecommendations(trace, user_history, top_n)),
                     "similarity", user_history, trace) :
               trace \in SeedTraces(blas, Val(self.article_ids),
                                    Val(self.embeddings).rows,
                                    PySlice(user_history, 0, SeedCap))}

\* list(range(start, stop))
PyRange(start, stop) == [i \in 1..(stop - start) |-> start + i - 1]

Min(a, b) == IF a <= b THEN a ELSE b

\* A plausible slip: the synthetic range without its cap.
AvailableUsersUncapped(user_clicks, limit) ==
    IF IsNone(user_clicks) \/ Len(Val(user_clicks)) = 0
    THEN PyRange(1, limit + 1)
    ELSE PySlice(Unique([i \in 1..Len(Val(user_clicks)) |-> Val(user_clicks)[i].user_id]),
                 0, limit)

\* ContentRecommender.get_available_users(limit): with no click data the
\* identifiers 1, 2, ... up to limit and never beyond 100; otherwise the first
\* limit distinct users of the log, in order of first appearance.
AvailableUsers(user_clicks, limit) ==
    IF IsNone(user_clicks) \/ Len(Val(user_clicks)) = 0
    THEN PyRange(1, Min(limit + 1, SyntheticStop))
    ELSE PySlice(Unique([i \in 1..Len(Val(user_clicks)) |-> Val(user_clicks)[i].user_id]),
                 0, limit)

\* --------------------------------------------------------------- function_app
\* get_similar_articles of function_app on whatever object _embeddings holds:
\* the lists the call can return, or that it raised. Only ValueError is
\* caught. On a matrix the search is the engine's. On a mapping,
\* _embeddings[article_idx] looks the row position up as a key (KeyError
\* unless some identifier equals it); on a pair it takes the identifier list
\* (position 0; a list has no reshape) or the whole matrix (position 1).
\* Where a row is obtained from a mapping or a pair, cosine_similarity
\* rejects the second argument with a ValueError or a TypeError depending on
\* the scikit-learn build; a matrix member held as a nested list has no
\* reshape (AttributeError). A plain list of numpy vectors serves as a
\* matrix: its element reshapes and cosine_similarity takes a list of rows.
\* A 1-dimensional array gives a scalar that reshapes, and cosine_similarity
\* rejects the array itself with a ValueError.
FaSimilarArticles(blas, article_ids, embeddings, article_id, top_k) ==
    IF article_id \notin Range(article_ids) THEN {Ok(<<>>)}
    ELSE LET idx == IndexOf(article_ids, article_id)
         IN CASE embeddings.layout = "ndarray" /\ embeddings.matrix = "1d" -> {Ok(<<>>)}
              [] embeddings.layout = "ndarray" /\ embeddings.matrix # "1d" ->
                   {Ok(r) : r \in SimilarArticles(blas, article_ids, embeddings.rows,
                                                  article_id, top_k)}
              [] embeddings.layout = "list" ->
                   {Ok(r) : r \in SimilarArticles(blas, article_ids, embeddings.rows,
                                                  article_id, top_k)}
              [] embeddings.layout = "dict" ->
                   IF (idx - 1) \in Range(embeddings.ids)
                   THEN {Ok(<<>>), Raised} ELSE {Raised}
              [] embeddings.layout = "tuple" ->
                   IF idx = 2 /\ embeddings.matrix # "list"
                   THEN {Ok(<<>>), Raised} ELSE {Raised}

\* The neighbour lists of the seeds in turn, up to the first call that raises.
RECURSIVE FaSeedTraces(_, _, _, _)
FaSeedTraces(blas, article_ids, embeddings, seeds) ==
    IF seeds = <<>> THEN {Ok(<<>>)}
    ELSE UNION {IF s.status = "raised" THEN {[status |-> "raised", value |-> <<>>]}
                ELSE {[status |-> t.status,
                       value |-> IF t.status = "raised" THEN <<>>
                                 ELSE <<[seed |-> Head(seeds), similar |-> s.value]>>
                                      \o t.value] :
                        t \in FaSeedTraces(blas, article_ids, embeddings, Tail(seeds))} :
                  s \in FaSimilarArticles(blas, article_ids, embeddings, Head(seeds),
                                          CandidateBreadth)}

FaEnrich(table, ranked) ==
    IF \E i \in 1..Len(ranked) : FaArticleInfo(table, ranked[i].id).status = "raised"
    THEN Raised
    ELSE Ok([i \in 1..Len(ranked) |->
               WithScore(FaArticleInfo(table, ranked[i].id).value, ranked[i].score)])

\* The no-history branch of function_app.recommend_for_user: the first top_n
\* of _article_ids, entry i (0-based) scored float(top_n - i). _article_ids
\* that is still None cannot be sliced (TypeError).
FaFirstArticles(g, top_n) ==
    IF IsNone(g.article_ids) THEN Raised
    ELSE LET ids == PySlice(Val(g.article_ids), 0, top_n)
         IN FaEnrich(Val(g.articles_metadata),
                     [i \in 1..Len(ids) |-> [id |-> ids[i], score |-> ToFloat(top_n - (i - 1))]])

\* function_app.recommend_for_user: the outcomes of one call.
FaRecommendForUser(blas, g, user_id, top_n) ==
    LET user_history == UserHistory(g.user_clicks, user_id)
    IN IF user_history = <<>>
       THEN {Outcome(FaFirstArticles(g, top_n), "catalog", <<>>, <<>>)}
       ELSE {IF t.status = "raised"
             THEN Outcome(Raised, "similarity", user_history, t.value)
             ELSE Outcome(FaEnrich(Val(g.articles_metadata),
                                   RankedRecommendations(t.value, user_history, top_n)),
                          "similarity", user_history, t.value) :
               t \in FaSeedTraces(blas, Val(g.article_ids), Val(g.embeddings),
                                  PySlice(user_history, 0, SeedCap))}

\* -------------------------------------------------------------------- load
\* What pickle.load gives for articles_embeddings.pickle: a mapping from
\* identifier to vector ("dict"), a pair (identifier list, matrix) ("tuple"),
\* a bare matrix ("ndarray"), or something else, here a plain list of numpy
\* vectors ("list"). ids and rows are the identifiers and the vectors it
\* holds, in its own order; a bare matrix and a plain list hold no
\* identifiers. matrix says how a bare matrix, or the second member of a
\* pair, is held: as a 2-dimensional numpy array ("2d"), as a 1-dimensional
\* one ("1d", here the array of no element, np.array([])) or as a nested
\* list ("list").
Pickled(e) ==
    [layout |-> e.layout,
     ids |-> IF e.layout \in {"dict", "tuple"} THEN e.ids ELSE <<>>,
     rows |-> e.rows,
     matrix |-> e.matrix]

\* The layouts ContentRecommender._load_data recognises.
SupportedLayouts == {"dict", "tuple", "ndarray"}

\* A numpy matrix of the given rows.
Ndarray(rows) == [layout |-> "ndarray", ids |-> <<>>, rows |-> rows, matrix |-> "2d"]

\* What self.embeddings is once _load_data has assigned it: np.array(...) of
\* the vectors of a mapping, which has one dimension when the mapping has no
\* entry; the second member of a pair or the bare matrix, as it is.
EngineEmbeddingsKind(e) ==
    IF e.layout = "dict" THEN (IF e.ids = <<>> THEN "1d" ELSE "2d")
    ELSE e.matrix

\* self.embeddings.shape[1], read for the log line inside the try: a list
\* has no shape (AttributeError) and a 1-dimensional array has no second
\* dimension (IndexError).
ShapeRaises(kind) == kind # "2d"

\* len(embeddings_data): the keys of a mapping, the two members of a pair,
\* the rows of a matrix or of a list.
PyLen(obj) ==
    CASE obj.layout = "dict" -> Len(obj.ids)
      [] obj.layout = "tuple" -> 2
      [] OTHER -> Len(obj.rows)

\* The four stores of a process (the attributes of a ContentRecommender, the
\* globals of function_app), each None until it is assigned.
Unloaded ==
    [embeddings |-> None, article_ids |-> None, articles_metadata |-> None,
     user_clicks |-> None]

Loaded(s) ==
    /\ ~IsNone(s.embeddings)
    /\ ~IsNone(s.article_ids)
    /\ ~IsNone(s.articles_metadata)
    /\ ~IsNone(s.user_clicks)

\* temp_metadata['article_id'] as a list
CatalogIds(table) == [i \in 1..Len(table.rows) |-> table.rows[i].article_id]

\* all_clicks: the frames of the files pd.read_csv could read, in order;
\* pd.concat(all_clicks, ignore_index=True) is their rows one after the other.
\* No readable file gives the empty frame.
RECURSIVE ConcatClicks(_)
ConcatClicks(files) ==
    IF files = <<>> THEN <<>>
    ELSE (IF Head(files).readable THEN Head(files).rows ELSE <<>>)
         \o ConcatClicks(Tail(files))

\* ContentRecommender._load_clicks: never raises. A missing folder is an
\* empty log; at most the first 10 files are read.
EngineLoadClicks(clicks) ==
    IF clicks.listing = "missing" THEN <<>>
    ELSE ConcatClicks(PySlice(clicks.files, 0, ClickFilesCap))

\* ContentRecommender._load_data (called by __init__): the instance, or that
\* the constructor raised, in which case no instance exists.
EngineLoadData(data) ==
    LET e == data.embeddings
        failed == [status |-> "raised", store |-> Unloaded]
    IN IF ~e.readable THEN failed
       ELSE IF e.layout \notin SupportedLayouts THEN failed
       ELSE IF ShapeRaises(EngineEmbeddingsKind(e)) THEN failed
       ELSE IF ~data.metadata.readable THEN failed
       ELSE [status |-> "ok",
             store |->
               [embeddings |-> Some(Ndarray(e.rows)),
                article_ids |->
                  Some(IF e.layout = "ndarray"
                       THEN PySlice(CatalogIds(data.metadata.table), 0, Len(e.rows))
                       ELSE e.ids),
                articles_metadata |-> Some(data.metadata.table),
                user_clicks |-> Some(EngineLoadClicks(data.clicks))]]

\* _embeddings = embeddings_data
FaAssignEmbeddings(g, data) ==
    [g EXCEPT !.embeddings = Some(Pickled(data.embeddings))]

\* _articles_metadata = pd.read_csv(...)
FaAssignMetadata(g, data) ==
    [g EXCEPT !.articles_metadata = Some(data.metadata.table)]

\* _article_ids = _articles_metadata['article_id'].iloc[:len(_embeddings)].tolist()
FaAssignArticleIds(g) ==
    [g EXCEPT !.article_ids =
        Some(PySlice(CatalogIds(Val(g.articles_metadata)), 0, PyLen(Val(g.embeddings))))]

\* The click log load_data_from_blob builds, or that listing the container
\* raised (the listings are outside the inner try). The first 10 blobs under
\* clicks/ whose name ends with .csv; when there is none, the whole container
\* is listed and the first 10 blobs whose name contains 'clicks_hour' are
\* taken. A blob that cannot be read is skipped.
FaLoadClicks(clicks) ==
    IF clicks.listing = "error" THEN Raised
    ELSE LET click_files == PySlice(clicks.files, 0, ClickFilesCap)
         IN IF click_files # <<>> THEN Ok(ConcatClicks(click_files))
            ELSE IF clicks.fallbackListing = "error" THEN Raised
            ELSE Ok(ConcatClicks(PySlice(clicks.others, 0, ClickFilesCap)))

\* A plausible slip: the globals are not declared global in
\* load_data_from_blob, so the test never finds them assigned.
NeverCached(g) == FALSE

\* The test load_data_from_blob starts with: _embeddings is not None. It
\* looks at no other global.
IsCached(g) == ~IsNone(g.embeddings)

\* ------------------------------------------------------------------ inputs
VARIABLES
    program,    \* "engine" (ContentRecommender) or "function_app"
    data,       \* the input artifacts: embeddings, metadata, click files
    store,      \* the four stores of the process
    last,       \* the last operation: its arguments and what it gave
    prev,       \* the answer to the recommend request before, where it is kept
    requests    \* function_app: the requests in flight, as the bag of their
                \* positions in recommend()

vars == <<program, data, store, last, prev, requests>>

Programs == {"engine", "function_app"}

\* The article of catalog row i.
ArticleId(i) == 10 * i

Items == {ArticleId(i) : i \in 1..(MaxRows + 1)}
Users == 1..3       \* user 3 never clicks
TopNs == (-1..MaxTopN) \cup {DefaultTopN}
TopKs == (0..MaxTopN) \cup {CandidateBreadth}

\* The limits asked of get_available_users: small ones, the one the
\* application passes, and one more.
Limits == (-1..MaxTopN) \cup {SyntheticStop - 1, SyntheticStop}

Click(u, a) == [user_id |-> u, click_article_id |-> a]

SeqsUpTo(S, n) == UNION {[1..k -> S] : k \in 0..n}

OptionalColumns == {"title", "category_id", "words_count"}

\* A metadata table of n rows with every column filled.
FullTable(n) ==
    [columns |-> OptionalColumns,
     rows |-> [i \in 1..n |->
                 [article_id |-> ArticleId(i), title |-> TextCell(i),
                  category_id |-> IntCell(7), words_count |-> IntCell(100 + i)]]]

\* Tables of n rows whose first row is sparse: an optional column may be
\* absent from the table (its cells are then never read), and a cell of the
\* first row may be empty.
SparseTables(n) ==
    {[columns |-> cols,
      rows |-> [i \in 1..n |->
                  IF i = 1
                  THEN [article_id |-> ArticleId(1),
                        title |-> IF "title" \in cols THEN t ELSE NaN,
                        category_id |-> IF "category_id" \in cols THEN c ELSE NaN,
                        words_count |-> IF "words_count" \in cols THEN w ELSE NaN]
                  ELSE [article_id |-> ArticleId(i),
                        title |-> IF "title" \in cols THEN TextCell(i) ELSE NaN,
                        category_id |-> IF "category_id" \in cols THEN IntCell(7) ELSE NaN,
                        words_count |-> IF "words_count" \in cols THEN IntCell(100 + i) ELSE NaN]]] :
        cols \in SUBSET OptionalColumns,
        t \in {TextCell(1), EmptyText, NaN},
        c \in {IntCell(7), NaN},
        w \in {IntCell(101), NaN}}

\* The environment of a process: the artifacts it reads and the build of its
\* numeric library.
Artifacts(connection, readable, layout, rows, metaReadable, table, listing, files) ==
    [connection |-> connection,
     blas |-> "separate",
     embeddings |-> [readable |-> readable, layout |-> layout,
                     ids |-> PySlice(CatalogIds(table), 0, Len(rows)), rows |-> rows,
                     matrix |-> IF layout \in {"tuple", "ndarray"} THEN "2d" ELSE "list"],
     metadata |-> [readable |-> metaReadable, table |-> table],
     clicks |-> [listing |-> listing, files |-> files,
                 fallbackListing |-> "ok", others |-> <<>>]]

File(readable, rows) == [readable |-> readable, rows |-> rows]

\* The matrices of MaxRows rows; the first row is fixed, the others take every
\* direction, so a row equal to another can stand anywhere.
Matrices == {m \in [1..MaxRows -> Vecs] : m[1] = <<5, 0>>}

\* What user 1 clicks: two articles of the embedding store, and one of the
\* catalog that is not in the store.
ClickedItems == {ArticleId(1), ArticleId(2), ArticleId(MaxRows + 1)}

\* Inputs that exercise the similarity search: every matrix, a catalog one
\* row longer than the matrix, a first file with up to MaxClicks clicks of
\* user 1 and a second file with one click of user 2.
SimilarityInputs ==
    {Artifacts(TRUE, TRUE, "ndarray", m, TRUE, FullTable(MaxRows + 1), "ok",
               <<File(TRUE, [i \in 1..Len(h) |-> Click(1, h[i])]),
                 File(TRUE, <<Click(2, ArticleId(2))>>)>>) :
        m \in Matrices,
        h \in SeqsUpTo(ClickedItems, MaxClicks)}

\* Inputs that exercise the catalog lookup: sparse tables as long as the
\* matrix, with an empty log, a log of user 1 alone, or a log of user 2 alone.
CatalogInputs ==
    {Artifacts(TRUE, TRUE, "ndarray", <<<<5, 0>>, <<3, 4>>, <<0, 5>>>>, TRUE, t, "ok", f) :
        t \in SparseTables(3),
        f \in {<<>>,
               <<File(TRUE, <<Click(1, ArticleId(2))>>)>>,
               <<File(TRUE, <<Click(2, ArticleId(1)), Click(2, ArticleId(1)),
                              Click(2, ArticleId(4))>>)>>}}

\* Inputs that exercise the load: each artifact readable or not, the click
\* folder listed, missing or (function_app) failing to list, each of two
\* click files readable or not.
FaultInputs ==
    {Artifacts(c, e, "ndarray", <<<<5, 0>>, <<3, 4>>, <<0, 5>>>>, m, FullTable(4), l,
               IF l = "missing" THEN <<>>
               ELSE <<File(r1, <<Click(1, ArticleId(1)), Click(1, ArticleId(4))>>),
                      File(r2, <<Click(2, ArticleId(2))>>)>>) :
        c \in BOOLEAN, e \in BOOLEAN, m \in BOOLEAN,
        l \in {"ok", "missing", "error"}, r1 \in BOOLEAN, r2 \in BOOLEAN}

\* Inputs that exercise the layouts of the embeddings file: one dataset
\* (article i of the catalog has row i of the matrix) pickled as a mapping in
\* catalog order or in the reverse order, as a pair, as a bare matrix, or as a
\* plain list; user 1 has clicked the first or the second article.
LayoutInputs ==
    LET base(l, a) ==
          Artifacts(TRUE, TRUE, l, <<<<5, 0>>, <<3, 4>>, <<0, 5>>>>, TRUE,
                    FullTable(4), "ok", <<File(TRUE, <<Click(1, ArticleId(a))>>)>>)
    IN {base(l, a) : l \in SupportedLayouts \cup {"list"}, a \in 1..2}
       \cup {[base("dict", a) EXCEPT !.embeddings.ids = Reverse(@),
                                     !.embeddings.rows = Reverse(@)] : a \in 1..2}

\* Inputs that exercise the second listing of function_app: no .csv blob
\* under clicks/, the whole container listed or failing to list, and in it no
\* blob named clicks_hour, one that reads or one that does not.
FallbackInputs ==
    {[Artifacts(TRUE, TRUE, "ndarray", <<<<5, 0>>, <<3, 4>>, <<0, 5>>>>, TRUE,
                FullTable(4), l, <<>>)
        EXCEPT !.clicks.fallbackListing = f, !.clicks.others = o] :
        l \in {"ok", "missing"}, f \in {"ok", "error"},
        o \in {<<>>,
               <<File(TRUE, <<Click(1, ArticleId(1)), Click(1, ArticleId(4))>>)>>,
               <<File(FALSE, <<Click(1, ArticleId(1))>>)>>}}

\* Inputs that exercise the shape of the embeddings: a mapping with no
\* entry, a bare matrix of no row held in one or in two dimensions, and a pair
\* whose matrix is a numpy array or a nested list; user 1 has clicked the
\* second article.
ShapeInputs ==
    LET base(l, rows) ==
          Artifacts(TRUE, TRUE, l, rows, TRUE, FullTable(4), "ok",
                    <<File(TRUE, <<Click(1, ArticleId(2))>>)>>)
    IN {base("dict", <<>>)}
       \cup {[base("ndarray", <<>>) EXCEPT !.embeddings.matrix = m] : m \in {"1d", "2d"}}
       \cup {[base("tuple", <<<<5, 0>>, <<3, 4>>, <<0, 5>>>>)
                EXCEPT !.embeddings.matrix = m] : m \in {"2d", "list"}}

\* Inputs with a history longer than the seed cap: user 1 has clicked
\* SeedCap + 1 distinct articles, in catalog order or in the reverse order,
\* out of a store of SeedCap + 2.
LongHistoryInputs ==
    {[Artifacts(TRUE, TRUE, "ndarray", LongMatrix, TRUE, FullTable(SeedCap + 2), "ok",
                <<File(TRUE, [i \in 1..(SeedCap + 1) |->
                                Click(1, ArticleId(IF forward THEN i ELSE SeedCap + 2 - i))])>>)
        EXCEPT !.blas = b] :
        forward \in BOOLEAN, b \in Builds}

\* Inputs that exercise the rounding of the sums: user 1 has read three
\* articles along the axes, and the two others get the same three scores in
\* two orders (0.6 + 0.8 - 0.6 and -0.6 + 0.8 + 0.6). User 2 has read one of
\* the two articles that are not along an axis; the cosine of the two needs
\* two products. The numeric library is of each build here and in the inputs
\* with a long history; the other inputs have at most one direction that is
\* not an axis, and there the builds give the same numbers.
RoundingInputs ==
    {[Artifacts(TRUE, TRUE, "ndarray", RoundingMatrix, TRUE, FullTable(5), "ok",
                <<File(TRUE, <<Click(1, ArticleId(1)), Click(1, ArticleId(2)),
                               Click(1, ArticleId(3)), Click(2, ArticleId(4))>>)>>)
        EXCEPT !.blas = b] : b \in Builds}

\* The engine reads local files: it needs no connection string, and listing
\* its click folder does not fail.
Possible(prog, d) ==
    prog = "engine" =>
        d.connection /\ d.clicks.listing # "error" /\ d.clicks.fallbackListing # "error"

NoOperation == [op |-> "none"]

\* The previous answer is not kept.
Untracked == [op |-> "untracked"]

\* An answered recommend request, with the stores as they were when it was
\* answered and the number of requests that were still in flight then.
Answered(request, s, others) ==
    [op |-> "recommend", user_id |-> request.user_id, top_n |-> request.top_n,
     load |-> request.load, status |-> request.out.status, value |-> request.out.value,
     store |-> s, others |-> others]

Init ==
    /\ program \in Programs
    /\ data \in SimilarityInputs \cup CatalogInputs \cup FaultInputs
                \cup LongHistoryInputs \cup LayoutInputs \cup FallbackInputs
                \cup ShapeInputs \cup RoundingInputs
    /\ Possible(program, data)
    /\ store = Unloaded
    /\ last = NoOperation
    /\ prev = Untracked
    /\ requests = EmptyBag

\* Inputs that exercise repeated requests: the metadata readable or not, the
\* click folder listed, missing or failing to list, each of two click files
\* readable or not. No two similarities and no two click counts are equal, so
\* the order among ties, which numpy and pandas fix for a process, plays no
\* part.
CacheInputs ==
    {Artifacts(TRUE, TRUE, "ndarray", <<<<5, 0>>, <<3, 4>>, <<0, 5>>>>, m, FullTable(4), l,
               IF l = "missing" THEN <<>>
               ELSE <<File(r1, <<Click(1, ArticleId(1)), Click(1, ArticleId(4)),
                                 Click(1, ArticleId(4))>>),
                      File(r2, <<Click(2, ArticleId(2)), Click(2, ArticleId(2)),
                                 Click(2, ArticleId(2))>>)>>) :
        m \in BOOLEAN, l \in {"ok", "missing", "error"}, r1 \in BOOLEAN, r2 \in BOOLEAN}

\* The same processes, with the answer to the previous recommend request kept
\* for comparison with the next.
InitCache ==
    /\ program \in Programs
    /\ data \in CacheInputs
    /\ Possible(program, data)
    /\ store = Unloaded
    /\ last = NoOperation
    /\ prev = NoOperation
    /\ requests = EmptyBag

\* ----------------------------------------------------------------- actions
\* last holds the result of the step that has just returned or answered,
\* until it is taken: the calls of a ContentRecommender are synchronous, and
\* of the requests to function_app one is answered at a time.
Idle == last.op = "none"

\* The caller takes the result of the last operation.
Return ==
    /\ ~Idle
    /\ last' = NoOperation
    /\ prev' = IF prev # Untracked /\ last.op = "recommend"
               THEN Answered(last, store, BagCardinality(requests)) ELSE prev
    /\ UNCHANGED <<program, data, store, requests>>

\* ContentRecommender(data_path): __init__ runs _load_data. The instance
\* exists only if the constructor returns.
EngineConstruct ==
    /\ Idle
    /\ program = "engine"
    /\ ~Loaded(store)
    /\ LET r == EngineLoadData(data)
       IN /\ store' = r.store
          /\ last' = [op |-> "load", status |-> r.status]
    /\ UNCHANGED <<program, data, prev, requests>>

\* recommender.recommend_for_user(user_id, top_n)
EngineRecommend(user_id, top_n) ==
    /\ Idle
    /\ program = "engine"
    /\ Loaded(store)
    /\ \E o \in EngineRecommendForUser(data.blas, store, user_id, top_n) :
         last' = [op |-> "recommend", user_id |-> user_id, top_n |-> top_n,
                  load |-> "none", out |-> o]
    /\ UNCHANGED <<program, data, store, prev, requests>>

\* recommender.get_similar_articles(article_id, top_k)
EngineGetSimilar(article_id, top_k) ==
    /\ Idle
    /\ program = "engine"
    /\ Loaded(store)
    /\ \E r \in SimilarArticles(data.blas, Val(store.article_ids),
                                Val(store.embeddings).rows, article_id, top_k) :
         last' = [op |-> "get_similar_articles", article_id |-> article_id,
                  top_k |-> top_k, out |-> Ok(r)]
    /\ UNCHANGED <<program, data, store, prev, requests>>

\* recommender._get_article_info(article_id)
EngineGetArticleInfo(article_id) ==
    /\ Idle
    /\ program = "engine"
    /\ Loaded(store)
    /\ last' = [op |-> "get_article_info", article_id |-> article_id,
                out |-> EngineArticleInfo(Val(store.articles_metadata), article_id)]
    /\ UNCHANGED <<program, data, store, prev, requests>>

\* recommender.get_user_history(user_id)
EngineGetUserHistory(user_id) ==
    /\ Idle
    /\ program = "engine"
    /\ Loaded(store)
    /\ last' = [op |-> "get_user_history", user_id |-> user_id,
                out |-> Ok(UserHistory(store.user_clicks, user_id))]
    /\ UNCHANGED <<program, data, store, prev, requests>>

\* recommender.get_available_users(limit)
EngineGetAvailableUsers(limit) ==
    /\ Idle
    /\ program = "engine"
    /\ Loaded(store)
    /\ last' = [op |-> "get_available_users", limit |-> limit,
                out |-> Ok(AvailableUsers(store.user_clicks, limit))]
    /\ UNCHANGED <<program, data, store, prev, requests>>

\* A request to /api/recommend: its parameters parse as integers, or they do
\* not (user_id missing or empty, user_id or top_n not an integer).
RejectedRequest == [kind |-> "rejected", user_id |-> 0, top_n |-> 0]
FaRequests ==
    {[kind |-> "valid", user_id |-> u, top_n |-> n] : u \in Users, n \in TopNs}
        \cup {RejectedRequest}

\* The answer 400 to a request whose parameters do not parse.
FaRejection(how) ==
    [op |-> "rejected_request", load |-> how, out |-> [status |-> "rejected"]]

\* The answer 500 to a request whose load raised: the parameters were not
\* read yet.
FaError(how, req) ==
    IF req.kind = "rejected"
    THEN [op |-> "rejected_request", load |-> how, out |-> [status |-> "raised"]]
    ELSE [op |-> "recommend", user_id |-> req.user_id, top_n |-> req.top_n,
          load |-> how, out |-> Outcome(Raised, "none", <<>>, <<>>)]

\* Where a request in flight stands in recommend(). Inside
\* load_data_from_blob: "download" (the test of l.33 found _embeddings None;
\* the embeddings are being fetched), "metadata" (_embeddings is assigned),
\* "ids" (_articles_metadata is assigned), "clicks" (_article_ids is
\* assigned). After load_data_from_blob has returned, before the parameters
\* are read: "loaded" (it ran the load), "cached" (l.33 returned at once and
\* the four globals were assigned), "partial" (l.33 returned at once and a
\* global was still None). The parameters are not read before the load
\* returns. Inside recommend_for_user: "fallback" (get_user_history found
\* _user_clicks None and returned [], and _article_ids is not read yet).
\* There the history is [] whoever the user is and top_n is not used yet, so
\* the position does not hold the two parameters: they are those of the
\* answer.
Position(pc) == [pc |-> pc]

At(pc) == BagIn(Position(pc), requests)

\* The host starts a request, a request is answered, a request moves on.
Enters(p) == requests' = requests (+) SetToBag({p})
Leaves(p) == requests' = requests (-) SetToBag({p})
Moves(p, q) == requests' = (requests (-) SetToBag({p})) (+) SetToBag({q})

\* The positions of a request whose load_data_from_blob has returned.
Returned == {"loaded", "cached", "partial"}

\* A request starts: recommend() calls load_data_from_blob, which finds
\* _embeddings None and goes on to fetch the embeddings.
FaLoadBegin ==
    /\ Idle
    /\ program = "function_app"
    /\ BagCardinality(requests) < MaxRequests
    /\ ~IsCached(store)
    /\ Enters(Position("download"))
    /\ UNCHANGED <<program, data, store, last, prev>>

\* A request starts: recommend() calls load_data_from_blob, which finds
\* _embeddings assigned and returns at once.
FaLoadCached ==
    /\ Idle
    /\ program = "function_app"
    /\ BagCardinality(requests) < MaxRequests
    /\ IsCached(store)
    /\ Enters(Position(IF Loaded(store) THEN "cached" ELSE "partial"))
    /\ UNCHANGED <<program, data, store, last, prev>>

\* A request has the connection string and the embeddings blob and assigns
\* _embeddings.
FaLoadEmbeddings ==
    /\ Idle
    /\ At("download")
    /\ data.connection /\ data.embeddings.readable
    /\ store' = FaAssignEmbeddings(store, data)
    /\ Moves(Position("download"), Position("metadata"))
    /\ UNCHANGED <<program, data, last, prev>>

\* A request has the metadata blob and assigns _articles_metadata.
FaLoadMetadata ==
    /\ Idle
    /\ At("metadata")
    /\ data.metadata.readable
    /\ store' = FaAssignMetadata(store, data)
    /\ Moves(Position("metadata"), Position("ids"))
    /\ UNCHANGED <<program, data, last, prev>>

\* A request assigns _article_ids.
FaLoadArticleIds ==
    /\ Idle
    /\ At("ids")
    /\ store' = FaAssignArticleIds(store)
    /\ Moves(Position("ids"), Position("clicks"))
    /\ UNCHANGED <<program, data, last, prev>>

\* The load of a request raises, at the connection string or the embeddings
\* blob, at the metadata blob, or at a listing: the globals stay as they are
\* and the request is answered 500.
FaLoadRaise(req) ==
    /\ Idle
    /\ \E pc \in {"download", "metadata", "clicks"} :
         /\ At(pc)
         /\ CASE pc = "download" -> ~(data.connection /\ data.embeddings.readable)
              [] pc = "metadata" -> ~data.metadata.readable
              [] pc = "clicks" -> FaLoadClicks(data.clicks).status = "raised"
         /\ Leaves(Position(pc))
    /\ last' = FaError("raised", req)
    /\ UNCHANGED <<program, data, store, prev>>

\* A request has the click files, assigns _user_clicks and returns from
\* load_data_from_blob.
FaLoadEnd ==
    /\ Idle
    /\ At("clicks")
    /\ FaLoadClicks(data.clicks).status = "ok"
    /\ store' = [store EXCEPT !.user_clicks = Some(FaLoadClicks(data.clicks).value)]
    /\ Moves(Position("clicks"), Position("loaded"))
    /\ UNCHANGED <<program, data, last, prev>>

\* A request whose load_data_from_blob has returned reads its parameters:
\* user_id is missing, or user_id or top_n is not an integer, and the request
\* is answered 400.
FaRecommendRejected ==
    /\ Idle
    /\ \E pc \in Returned :
         /\ At(pc)
         /\ last' = FaRejection(pc)
         /\ Leaves(Position(pc))
    /\ UNCHANGED <<program, data, store, prev>>

\* A request whose load_data_from_blob has returned reads its parameters,
\* which parse as integers, and calls recommend_for_user, which reads
\* _user_clicks for the history and finds it assigned. The four globals are
\* assigned then, and no request changes their values: the rest of the call
\* is answered in the same step.
FaRecommend(user_id, top_n) ==
    /\ Idle
    /\ ~IsNone(store.user_clicks)
    /\ \E pc \in Returned :
         /\ At(pc)
         /\ \E o \in FaRecommendForUser(data.blas, store, user_id, top_n) :
               last' = [op |-> "recommend", user_id |-> user_id, top_n |-> top_n,
                        load |-> pc, out |-> o]
         /\ Leaves(Position(pc))
    /\ UNCHANGED <<program, data, store, prev>>

\* The same request when get_user_history finds _user_clicks None: the
\* history is [] and the call goes on to the no-history branch.
FaRecommendNoLog ==
    /\ Idle
    /\ IsNone(store.user_clicks)
    /\ \E pc \in Returned :
         /\ At(pc)
         /\ Moves(Position(pc), Position("fallback"))
    /\ UNCHANGED <<program, data, store, last, prev>>

\* The no-history branch of such a request: it reads _article_ids and the
\* metadata as they are now, and the request is answered (500 if the branch
\* raises).
FaRecommendFallback(user_id, top_n) ==
    /\ Idle
    /\ At("fallback")
    /\ \E o \in FaRecommendForUser(data.blas, [store EXCEPT !.user_clicks = None],
                                   user_id, top_n) :
          last' = [op |-> "recommend", user_id |-> user_id, top_n |-> top_n,
                   load |-> "partial", out |-> o]
    /\ Leaves(Position("fallback"))
    /\ UNCHANGED <<program, data, store, prev>>

\* get_similar_articles(article_id, top_k) of function_app, once the data is
\* loaded.
FaGetSimilar(article_id, top_k) ==
    /\ Idle
    /\ program = "function_app"
    /\ Loaded(store)
    /\ \E r \in FaSimilarArticles(data.blas, Val(store.article_ids),
                                  Val(store.embeddings), article_id, top_k) :
         last' = [op |-> "get_similar_articles", article_id |-> article_id,
                  top_k |-> top_k, out |-> r]
    /\ UNCHANGED <<program, data, store, prev, requests>>

\* get_article_info(article_id) of function_app, once the data is loaded.
FaGetArticleInfo(article_id) ==
    /\ Idle
    /\ program = "function_app"
    /\ Loaded(store)
    /\ last' = [op |-> "get_article_info", article_id |-> article_id,
                out |-> FaArticleInfo(Val(store.articles_metadata), article_id)]
    /\ UNCHANGED <<program, data, store, prev, requests>>

\* get_user_history(user_id) of function_app.
FaGetUserHistory(user_id) ==
    /\ Idle
    /\ program = "function_app"
    /\ last' = [op |-> "get_user_history", user_id |-> user_id,
                out |-> Ok(UserHistory(store.user_clicks, user_id))]
    /\ UNCHANGED <<program, data, store, prev, requests>>

Next ==
    \/ EngineConstruct
    \/ \E u \in Users, n \in TopNs : EngineRecommend(u, n)
    \/ \E a \in Items \cup {ArticleId(MaxRows + 2)}, k \in TopKs : EngineGetSimilar(a, k)
    \/ \E a \in Items \cup {ArticleId(MaxRows + 2)} : EngineGetArticleInfo(a)
    \/ \E u \in Users : EngineGetUserHistory(u)
    \/ \E l \in Limits : EngineGetAvailableUsers(l)
    \/ FaLoadBegin
    \/ FaLoadCached
    \/ FaLoadEmbeddings
    \/ FaLoadMetadata
    \/ FaLoadArticleIds
    \/ \E req \in FaRequests : FaLoadRaise(req)
    \/ FaLoadEnd
    \/ FaRecommendRejected
    \/ \E u \in Users, n \in TopNs : FaRecommend(u, n)
    \/ FaRecommendNoLog
    \/ \E u \in Users, n \in TopNs : FaRecommendFallback(u, n)
    \/ \E a \in Items \cup {ArticleId(MaxRows + 2)}, k \in TopKs : FaGetSimilar(a, k)
    \/ \E a \in Items \cup {ArticleId(MaxRows + 2)} : FaGetArticleInfo(a)
    \/ \E u \in Users : FaGetUserHistory(u)
    \/ Return

Spec == Init /\ [][Next]_vars

SpecCache == InitCache /\ [][Next]_vars

\* ------------------------------------------------------------------ claims
Recommended == last.op = "recommend" /\ last.out.status = "ok"

\* The articles of the log's rows of one user, read off the rows themselves.
FullHistory(user_id) ==
    IF IsNone(store.user_clicks) THEN {}
    ELSE {c.click_article_id :
            c \in {x \in Range(Val(store.user_clicks)) : x.user_id = user_id}}

LogEmpty == ~IsNone(store.user_clicks) /\ Val(store.user_clicks) = <<>>

ScoresDescending(v) ==
    \A i \in 1..(Len(v) - 1) :
        FloatCmp(v[i].recommendation_score, v[i + 1].recommendation_score) >= 0

\* C1: for a user with a non-empty history, no entry that recommend_for_user
\* returns is an article of the user's full history, in either program.
C1_NoReadArticleRecommended ==
    (Recommended /\ FullHistory(last.user_id) # {}) =>
        \A i \in 1..Len(last.out.value) :
            last.out.value[i].article_id \notin FullHistory(last.user_id)

\* The same, for the requests that did not start while a load had left a
\* global unassigned.
C1_AfterLoad ==
    (last.op = "recommend" /\ last.load # "partial") => C1_NoReadArticleRecommended

\* C1's case: a history longer than the seed cap, whose article past the cap
\* was among the neighbours of a seed, and a result that is not empty.
C1_Witness ==
    /\ Recommended
    /\ last.out.path = "similarity"
    /\ Len(last.out.history) > SeedCap
    /\ last.out.value # <<>>
    /\ \E i \in 1..Len(last.out.trace) : \E j \in 1..Len(last.out.trace[i].similar) :
          last.out.trace[i].similar[j].id = last.out.history[SeedCap + 1]

\* C2: for an article of the embedding store and any k, get_similar_articles
\* never returns the article itself and returns at most k entries, whatever
\* the vectors are (identical vectors included).
C2_SimilarExcludesSelf ==
    (/\ last.op = "get_similar_articles"
     /\ last.article_id \in Range(Val(store.article_ids))) =>
        /\ \A i \in 1..Len(last.out.value) : last.out.value[i].id # last.article_id
        /\ Len(last.out.value) <= last.top_k

\* C3: the list recommend_for_user returns is never longer than top_n, for
\* every integer top_n the operation accepts (stated here for the lists that
\* are not empty: an empty list is longer than a negative top_n too).
C3_AtMostTopN ==
    (Recommended /\ last.out.value # <<>>) => Len(last.out.value) <= last.top_n

\* C4: every list recommend_for_user returns is in descending order of
\* recommendation_score, on each of its paths.
C4_SortedByScore == Recommended => ScoresDescending(last.out.value)

\* C4's case: a list of the similarity path with two different scores.
C4_Witness ==
    /\ Recommended
    /\ last.out.path = "similarity"
    /\ Len(last.out.value) >= 2
    /\ FloatCmp(last.out.value[1].recommendation_score,
                last.out.value[2].recommendation_score) > 0

\* The same case in a request to function_app that overlapped a load: the
\* catalog list of a request that found _user_clicks None, answered while
\* another request is in flight.
C4_WitnessDuringLoad ==
    /\ Recommended
    /\ last.load = "partial"
    /\ requests # EmptyBag
    /\ Len(last.out.value) >= 2

\* C5: with no history for the user and a log that is not empty, the result is
\* the top_n articles by click count: each entry scored with its article's
\* count, in descending order, no article left out that has more clicks than
\* one returned, and top_n entries if the log has that many articles
\* (stated for top_n >= 0).
C5_PopularityFallback ==
    (/\ Recommended
     /\ Loaded(store)
     /\ ~LogEmpty
     /\ FullHistory(last.user_id) = {}
     /\ last.top_n >= 0) =>
        LET clicks == Val(store.user_clicks)
            v == last.out.value
            clicked == {clicks[i].click_article_id : i \in 1..Len(clicks)}
            returned == {v[i].article_id : i \in 1..Len(v)}
        IN /\ \A i \in 1..Len(v) :
                /\ v[i].article_id \in clicked
                /\ v[i].recommendation_score = ToFloat(ClickCount(clicks, v[i].article_id))
           /\ ScoresDescending(v)
           /\ Cardinality(returned) = Len(v)
           /\ Len(v) = (IF last.top_n < Cardinality(clicked)
                        THEN last.top_n ELSE Cardinality(clicked))
           /\ \A a \in clicked \ returned : \A b \in returned :
                ClickCount(clicks, a) <= ClickCount(clicks, b)

\* C6: with an empty log, the result is the first top_n articles of the
\* catalog in catalog order (all of them if the catalog is shorter), entry j
\* (0-based) scored top_n - j, also when the embedding store has fewer rows
\* than the catalog (stated for top_n >= 0).
C6_CatalogFallback ==
    (/\ Recommended
     /\ Loaded(store)
     /\ LogEmpty
     /\ last.top_n >= 0) =>
        LET ids == CatalogIds(Val(store.articles_metadata))
            v == last.out.value
            n == IF last.top_n < Len(ids) THEN last.top_n ELSE Len(ids)
        IN /\ Len(v) = n
           /\ \A j \in 1..Len(v) :
                /\ v[j].article_id = ids[j]
                /\ v[j].recommendation_score = ToFloat(last.top_n - (j - 1))

\* C7: a load that fails leaves no partly initialised store in use: a request
\* whose load step returned normally is served from a store whose four parts
\* are all set.
C7_NoPartialStoreServed ==
    (last.op = "recommend" /\ last.load # "raised") => Loaded(store)

\* The sum of the scores article c has in the neighbour lists of the seeds
\* that are in the embedding store, added to sum in the order of the seeds.
RECURSIVE KnownSeedScore(_, _, _, _)
KnownSeedScore(sum, trace, article_ids, c) ==
    IF trace = <<>> THEN sum
    ELSE LET t == Head(trace)
             here == {j \in 1..Len(t.similar) : t.similar[j].id = c}
         IN KnownSeedScore(
                IF t.seed \in Range(article_ids) /\ here # {}
                THEN FloatAdd(sum, t.similar[CHOOSE j \in here : TRUE].score)
                ELSE sum,
                Tail(trace), article_ids, c)

\* The candidates the seeds of the embedding store contribute: their
\* neighbours that the user has not read.
KnownSeedCandidates(trace, article_ids, history) ==
    UNION {{t.similar[j].id : j \in 1..Len(t.similar)} :
             t \in {x \in Range(trace) : x.seed \in Range(article_ids)}}
    \ Range(history)

\* C8: get_similar_articles of an article that is not in the embedding store
\* returns [] without raising, and recommend_for_user goes on with the other
\* seeds: each entry's score is the sum its article gets from the seeds that
\* are in the store, and the candidates of those seeds are returned (all of
\* them when top_n is at least their number).
C8_UnknownSeedSkipped ==
    /\ (last.op = "get_similar_articles"
        /\ last.article_id \notin Range(Val(store.article_ids))) => last.out = Ok(<<>>)
    /\ (Recommended /\ last.out.path = "similarity") =>
        LET ids == Val(store.article_ids)
            trace == last.out.trace
            v == last.out.value
            cands == KnownSeedCandidates(trace, ids, last.out.history)
        IN /\ \A i \in 1..Len(trace) :
                trace[i].seed \notin Range(ids) => trace[i].similar = <<>>
           /\ \A i \in 1..Len(v) :
                /\ v[i].article_id \in cands
                /\ v[i].recommendation_score
                      = KnownSeedScore(ToFloat(0), trace, ids, v[i].article_id)
           /\ last.top_n >= 0 =>
                Len(v) = (IF last.top_n < Cardinality(cands)
                          THEN last.top_n ELSE Cardinality(cands))

\* C8's case: a call whose seeds hold an article that is not in the store and
\* one that is, with the candidates of the latter returned.
C8_Witness ==
    /\ Recommended
    /\ last.out.path = "similarity"
    /\ last.top_n >= 1
    /\ \E i \in 1..Len(last.out.trace) :
          last.out.trace[i].seed \notin Range(Val(store.article_ids))
    /\ \E i \in 1..Len(last.out.trace) : last.out.trace[i].similar # <<>>
    /\ last.out.value # <<>>

\* C9: the catalog lookup never raises, and gives the title of a known
\* article that has one, "Article {id}" otherwise, the sentinel for a missing
\* category and 0 for a missing word count (the sentinel is taken to be the
\* program's own, 'N/A').
C9_CatalogLookupDefaults ==
    last.op = "get_article_info" =>
        LET table == Val(store.articles_metadata)
            found == MatchingRows(table, last.article_id)
            has(column) == /\ found # <<>>
                           /\ column \in table.columns
                           /\ found[1][column].kind \notin {"nan", "empty"}
        IN /\ last.out.status = "ok"
           /\ last.out.value.title =
                (IF has("title") THEN found[1].title ELSE ArticleTitle(last.article_id))
           /\ last.out.value.category =
                (IF has("category_id") THEN found[1].category_id ELSE NotAvailable)
           /\ last.out.value.words_count =
                (IF has("words_count") THEN found[1].words_count.val ELSE 0)

\* No click file could be read, or there is none, and the other artifacts
\* are readable.
NoClickFileRead ==
    /\ data.connection
    /\ data.embeddings.readable
    /\ data.metadata.readable
    /\ data.clicks.listing # "error"
    /\ data.clicks.fallbackListing # "error"
    /\ \A i \in 1..Len(data.clicks.files) : ~data.clicks.files[i].readable
    /\ \A i \in 1..Len(data.clicks.others) : ~data.clicks.others[i].readable

\* C10: when no click file can be read (or none exists) the load succeeds
\* with an empty log, get_user_history returns [] for every user and
\* recommend_for_user returns without an error (stated for top_n >= 0).
C10_EmptyLogDegrades ==
    NoClickFileRead =>
        /\ last.op = "load" => (last.status = "ok" /\ LogEmpty)
        /\ last.op = "get_user_history" => last.out = Ok(<<>>)
        /\ (last.op = "recommend" /\ last.top_n >= 0) =>
             (last.load # "raised" /\ LogEmpty /\ last.out.status = "ok")


\* embeddings[article_ids.index(article_id)]: the vector the store gives for
\* an identifier of article_ids, if the lookup gives a vector at all.
VectorOf(s, article_id) ==
    LET idx == IndexOf(Val(s.article_ids), article_id)
        obj == Val(s.embeddings)
    IN CASE obj.layout = "dict" ->
              IF (idx - 1) \in Range(obj.ids)
              THEN Ok(obj.rows[IndexOf(obj.ids, idx - 1)]) ELSE Raised
         [] obj.layout = "tuple" -> [status |-> "not a vector", value |-> <<>>]
         [] OTHER -> Ok(obj.rows[idx])

LoadAttempted ==
    \/ last.op = "load"
    \/ last.op = "recommend" /\ last.load \in {"loaded", "raised"}

AllReadable ==
    /\ data.connection
    /\ data.embeddings.readable
    /\ data.metadata.readable
    /\ data.clicks.listing # "error"
    /\ data.clicks.fallbackListing # "error"

\* The file holds one of the three layouts: a mapping, a pair whose second
\* member is a matrix, or a bare matrix.
IsSupported(e) ==
    /\ e.layout \in SupportedLayouts
    /\ e.layout \in {"tuple", "ndarray"} => e.matrix = "2d"

\* C11: in both programs the load accepts the three layouts of the embeddings
\* file (mapping, pair, bare matrix) and aborts on any other; once loaded, the
\* store gives, for every identifier of the dataset that it knows, the vector
\* the dataset has for it, whichever layout was read.
C11_LayoutsNormalised ==
    /\ (LoadAttempted /\ AllReadable) =>
          (Loaded(store) <=> IsSupported(data.embeddings))
    /\ Loaded(store) =>
          \A i \in 1..Len(data.embeddings.ids) :
             data.embeddings.ids[i] \in Range(Val(store.article_ids)) =>
                VectorOf(store, data.embeddings.ids[i]) = Ok(data.embeddings.rows[i])

\* The same, for ContentRecommender alone and a dataset of at least one item.
C11_EngineLayoutsNormalised ==
    (program = "engine" /\ data.embeddings.rows # <<>>) => C11_LayoutsNormalised

\* ContentRecommender refuses a mapping with no entry.
C11_WitnessEmptyMapping ==
    /\ program = "engine"
    /\ last.op = "load"
    /\ data.embeddings.layout = "dict" /\ data.embeddings.ids = <<>>
    /\ last.status = "raised"


LoggedUsers ==
    IF IsNone(store.user_clicks) THEN {}
    ELSE {c.user_id : c \in Range(Val(store.user_clicks))}

AskedUsers == last.op = "get_available_users" /\ last.limit >= 1

Distinct(s) == \A i, j \in 1..Len(s) : s[i] = s[j] => i = j

\* C12 as stated: for a positive limit, get_available_users(limit) returns
\* exactly 1..limit when the log is empty, and at most limit distinct users of
\* the log when it is not.
C12_AvailableUsers ==
    AskedUsers =>
        IF LogEmpty
        THEN last.out.value = [i \in 1..last.limit |-> i]
        ELSE /\ Len(last.out.value) <= last.limit
             /\ Distinct(last.out.value)
             /\ Range(last.out.value) \subseteq LoggedUsers

\* C12 as amended: for a positive limit, get_available_users(limit) returns
\* 1..min(limit, 100) when the log is empty, and at most limit distinct users
\* of the log when it is not.
C12_AvailableUsersCapped ==
    AskedUsers =>
        IF LogEmpty
        THEN last.out.value = [i \in 1..Min(last.limit, SyntheticStop - 1) |-> i]
        ELSE /\ Len(last.out.value) <= last.limit
             /\ Distinct(last.out.value)
             /\ Range(last.out.value) \subseteq LoggedUsers

C12_Witness ==
    /\ AskedUsers
    /\ LogEmpty
    /\ last.limit >= SyntheticStop
    /\ Len(last.out.value) = SyntheticStop - 1

\* A log of two users cut to its first one.
C12_WitnessLog ==
    /\ AskedUsers
    /\ Cardinality(LoggedUsers) > last.limit
    /\ Len(last.out.value) = last.limit


\* The articles of the log's rows of one user, in the order of the rows.
ClickedInOrder(user_id) ==
    LET mine == SelectSeq(Val(store.user_clicks), LAMBDA c : c.user_id = user_id)
    IN [i \in 1..Len(mine) |-> mine[i].click_article_id]

\* The distinct articles a user interacted with last, most recent first, at
\* most n of them, the order of the log's rows taken as the order in time.
MostRecentDistinct(user_id, n) == PySlice(Unique(Reverse(ClickedInOrder(user_id))), 0, n)

SeedsUsed == {last.out.trace[i].seed : i \in 1..Len(last.out.trace)}

\* C13: on the similarity path recommend_for_user uses at most 5 seeds, and
\* they are the 5 distinct articles the user interacted with last, the order
\* of the log's rows taken as the order in time.
C13_SeedsMostRecent ==
    (Recommended /\ last.out.path = "similarity") =>
        /\ Len(last.out.trace) <= SeedCap
        /\ SeedsUsed = Range(MostRecentDistinct(last.user_id, SeedCap))

\* The same, for histories of at most 5 distinct articles.
C13_ShortHistories ==
    (Recommended /\ last.out.path = "similarity"
       /\ Cardinality(FullHistory(last.user_id)) <= SeedCap) =>
        /\ Len(last.out.trace) <= SeedCap
        /\ SeedsUsed = Range(MostRecentDistinct(last.user_id, SeedCap))


\* The dataset itself, whatever the layout it is stored in: its identifiers
\* and the vector of each.
DatasetIds == Range(data.embeddings.ids)
DatasetVector(id) == data.embeddings.rows[IndexOf(data.embeddings.ids, id)]
Similarity(c, s) == CosineSimilarity(data.blas, DatasetVector(s), DatasetVector(c))

\* c is one of the top-20 neighbours of s: an item other than s with fewer
\* than 20 other items strictly more similar to s.
IsNeighbour(c, s) ==
    /\ c # s
    /\ Cardinality({d \in DatasetIds \ {s} :
                        FloatCmp(Similarity(d, s), Similarity(c, s)) > 0})
          < CandidateBreadth

\* The seeds of the last call in the order the call took them.
SeedsInOrder == [i \in 1..Len(last.out.trace) |-> last.out.trace[i].seed]

\* The similarities of c to the seeds it is a neighbour of, added to sum in
\* the order of the seeds.
RECURSIVE SumOfSimilarities(_, _, _)
SumOfSimilarities(sum, c, seeds) ==
    IF seeds = <<>> THEN sum
    ELSE LET s == Head(seeds)
         IN SumOfSimilarities(
                IF s \in DatasetIds /\ IsNeighbour(c, s)
                THEN FloatAdd(sum, Similarity(c, s)) ELSE sum,
                c, Tail(seeds))

SeedSum(c) == SumOfSimilarities(ToFloat(0), c, SeedsInOrder)

\* The seeds of the last call that the dataset knows, and the candidates
\* they give: their neighbours that are not in the user's history.
KnownSeeds == SeedsUsed \cap DatasetIds
Candidates ==
    {c \in DatasetIds : /\ c \notin Range(last.out.history)
                        /\ \E s \in KnownSeeds : IsNeighbour(c, s)}
ReturnedIds == {last.out.value[i].article_id : i \in 1..Len(last.out.value)}

\* C14: on the similarity path every returned item is a candidate whose
\* recommendation_score is the sum of its similarities to the seeds it is a
\* top-20 neighbour of (a sum of floats, taken in the order of the seeds),
\* and the returned items are the top_n candidates with the largest sums.
C14_ScoreIsSumOverSeeds ==
    (Recommended /\ last.out.path = "similarity" /\ last.top_n >= 0) =>
        /\ \A i \in 1..Len(last.out.value) :
              /\ last.out.value[i].article_id \in Candidates
              /\ last.out.value[i].recommendation_score
                    = SeedSum(last.out.value[i].article_id)
        /\ Cardinality(ReturnedIds) = Min(last.top_n, Cardinality(Candidates))
        /\ \A c \in Candidates \ ReturnedIds : \A r \in ReturnedIds :
              FloatCmp(SeedSum(c), SeedSum(r)) <= 0

\* No two items of the dataset have the same vector.
DistinctVectors ==
    \A a, b \in DatasetIds : DatasetVector(a) = DatasetVector(b) => a = b

\* The same, for a dataset without duplicate vectors stored as a matrix.
C14_DistinctVectors ==
    (DistinctVectors /\ data.embeddings.layout = "ndarray") => C14_ScoreIsSumOverSeeds


\* C15: for a user with a non-empty history recommend_for_user never pads.
\* It takes the similarity path, returns exactly min(top_n, number of
\* qualifying candidates) entries, no article twice, and so the empty list
\* when no candidate qualifies.
C15_NeverPads ==
    (Recommended /\ FullHistory(last.user_id) # {}) =>
        /\ last.out.path = "similarity"
        /\ Len(last.out.value) = Min(last.top_n, Cardinality(Candidates))
        /\ Cardinality(ReturnedIds) = Len(last.out.value)
        /\ Candidates = {} => last.out.value = <<>>

\* The same, for a dataset without duplicate vectors stored as a matrix, a
\* count that is not negative and a request that did not start while a load
\* had left a global unassigned.
C15_DistinctVectors ==
    (DistinctVectors /\ data.embeddings.layout = "ndarray" /\ last.op = "recommend"
       /\ last.load # "partial" /\ last.top_n >= 0) => C15_NeverPads

\* A user with a history and no qualifying candidate gets the empty list.
C15_WitnessEmpty ==
    /\ Recommended
    /\ FullHistory(last.user_id) # {}
    /\ last.top_n >= 1
    /\ Candidates = {}
    /\ last.out.value = <<>>


Repeated ==
    /\ last.op = "recommend"
    /\ prev.op = "recommend"

\* A request that an earlier load served: it ran the load itself to the end,
\* or load_data_from_blob returned at once with the four stores assigned (a
\* ContentRecommender exists only loaded).
ServedByLoad(how) == how \in {"loaded", "cached", "none"}

\* C16: data is loaded once and then only read. After a request has been
\* answered from loaded stores, the four stores keep their values whatever
\* the requests in flight do; when no other request was in flight, the next
\* request does no load of its own (load_data_from_blob returns at once);
\* and of two successive requests that a successful load serves, for the
\* same user and count, the second gets the answer of the first.
C16_LoadedOnceThenReadOnly ==
    (Repeated /\ Loaded(prev.store)) =>
        /\ store = prev.store
        /\ (prev.others = 0) => (last.load \in {"cached", "none"})
        /\ (/\ ServedByLoad(prev.load) /\ ServedByLoad(last.load)
            /\ last.user_id = prev.user_id /\ last.top_n = prev.top_n) =>
              /\ last.out.status = prev.status
              /\ last.out.value = prev.value

\* A second request for the same user and count, started after the first
\* was answered, served from the cache with the answer of the first.
C16_WitnessCached ==
    /\ Repeated
    /\ prev.load = "loaded" /\ prev.others = 0
    /\ last.load = "cached"
    /\ last.user_id = prev.user_id /\ last.top_n = prev.top_n
    /\ last.out.status = "ok" /\ last.out.value # <<>>
    /\ last.out.value = prev.value

\* Two requests that both found _embeddings None ran the load, and both
\* loads raised.
C16_WitnessTwoLoadsRaised ==
    /\ Repeated
    /\ prev.load = "raised" /\ prev.others = 1
    /\ last.load = "raised"

\* Two requests that both ran the load to its end.
C16_WitnessTwoLoads ==
    /\ Repeated
    /\ prev.load = "loaded" /\ prev.others = 1
    /\ last.load = "loaded"

\* The same without the side condition: any two successive answers to the
\* same request are the same. It fails for the requests that overlap a load
\* or follow a failed one (the partial store of C7).
C16_AnyTwoRequests ==
    (Repeated /\ last.user_id = prev.user_id /\ last.top_n = prev.top_n) =>
        /\ last.out.status = prev.status
        /\ last.out.value = prev.value

====
